---- MODULE Spec2Model ----
(***************************************************************************)
(* State-machine model of src/kmcuda.cc: the argument validator            *)
(* (check_args), the device pool manager (setup_devices), the centroid      *)
(* initializer (kmeans_init_centroids) and the driver (kmeans_cuda).        *)
(*                                                                         *)
(* Conventions.                                                            *)
(*  - C++ vectors are 0-based, TLA+ sequences are 1-based: At(s, i) reads   *)
(*    position i of a vector the way the source indexes it.                 *)
(*  - float arguments (tolerance, yinyang_t) are kept in tenths, so 1.0 is  *)
(*    Tenths(1) and 0.5 is Tenths(1) \div 2.                                *)
(*  - unsigned words are narrower than 32 bits because the checker's        *)
(*    integers are; UINT32_MAX is the largest word of the model.            *)
(*  - rand() is a linear congruential generator over 0..RAND_MAX, whose     *)
(*    state is process-wide (rng) and reset by srand.                       *)
(*  - a read outside a vector, a failed assert and a copy from an address   *)
(*    outside a buffer have no defined outcome; the model branches over     *)
(*    the outcomes a build can show (UBOutcomes, Garbage).                  *)
(***************************************************************************)
EXTENDS Integers, Sequences, FiniteSets, TLC

\* ------------------------------------------------------------------ bounds
MaxInstalled == 2      \* cudaGetDeviceCount returns 0..MaxInstalled
MaxSamples == 3        \* samples_size of a kmeans_cuda call is 2..MaxSamples
MaxSeed == 1           \* seeds are 0..MaxSeed
SearchN == 200         \* samples_size of the searches run on their own
MaxDist == 2           \* weights of the search's distance vectors are 0..MaxDist

\* ------------------------------------------------------- program constants
UINT32_MAX == 65535    \* largest unsigned word (narrowed, see above)
RAND_MAX == 7          \* largest value of rand() (narrowed, see above)

Tenths(x) == 10 * x

Pow2(n) == 2 ^ n

At(s, i) == s[i + 1]

Back(s) == s[Len(s)]

Range(s) == {s[i] : i \in 1..Len(s)}

Max(a, b) == IF a >= b THEN a ELSE b

VARIABLES
  \* arguments of kmeans_cuda
  init, tolerance, yinyang_t, samples_size, features_size, clusters_size,
  device, device_ptrs, fp16x2, null_ptrs,
  \* the machine: the number of installed devices, the devices cudaSetDevice
  \* succeeds for, the samples whose first feature is NaN
  installed, selectable, nan_samples,
  \* the run
  pc, result, devs, work_devs, p2p, bufs, samples_copied,
  centroid_src, pp_i, seed, rng, collect, phases, failed, freed,
  \* the cumulative-weight search on its own, and two calls of the random
  \* initializer in one process
  search, rnd

argVars == <<init, tolerance, yinyang_t, samples_size, features_size,
             clusters_size, device, device_ptrs, fp16x2, null_ptrs>>
envVars == <<installed, selectable, nan_samples>>
runVars == <<pc, result, devs, work_devs, p2p, bufs, samples_copied,
             centroid_src, pp_i, seed, rng, collect, phases, failed, freed>>
vars == <<argVars, envVars, runVars, search, rnd>>

\* ---------------------------------------------------------------- inputs
InitMethods == {"Import", "Random", "PlusPlus"}
ToleranceChoices == {-1, 0, Tenths(1) + 1}
YinyangChoices == {-1, 0, Tenths(1) \div 2, Tenths(1) \div 2 + 1}
SamplesChoices == 2..MaxSamples
FeaturesChoices == {0, 4}
ClustersChoices == (1..MaxSamples) \cup {UINT32_MAX}
DeviceMasks == 0..(Pow2(MaxInstalled) + 1)
DevicePtrChoices == -1..MaxInstalled
NullPtrChoices == {{}, {"centroids"}}
CudaArchs == {52, 60}
Seeds == 0..MaxSeed
Verbosities == {0, 2}

ResultCodes == {"Success", "InvalidArguments", "NoSuchDevice",
                "MemoryCopyError", "MemoryAllocationError", "RuntimeError"}

\* what a build can show where the source has no defined behaviour
UBOutcomes == {"garbage", "copy_error", "abort"}

\* --------------------------------------------------------------- check_args
\* check_args with the test of the device mask moved in front of the tests
\* of the sizes
check_args_DeviceFirst(arch) ==
  IF device < 0 THEN "NoSuchDevice"
  ELSE IF device > Pow2(installed) THEN "NoSuchDevice"
  ELSE IF clusters_size < 2 \/ clusters_size = UINT32_MAX THEN "InvalidArguments"
  ELSE IF features_size = 0 THEN "InvalidArguments"
  ELSE IF samples_size < clusters_size THEN "InvalidArguments"
  ELSE IF null_ptrs # {} THEN "InvalidArguments"
  ELSE IF tolerance < 0 \/ tolerance > Tenths(1) THEN "InvalidArguments"
  ELSE IF yinyang_t < 0 \/ 2 * yinyang_t > Tenths(1) THEN "InvalidArguments"
  ELSE IF arch < 60 /\ fp16x2 THEN "InvalidArguments"
  ELSE "Success"

\* check_args without the tests of tolerance and yinyang_t
check_args_NoFractions(arch) ==
  IF clusters_size < 2 \/ clusters_size = UINT32_MAX THEN "InvalidArguments"
  ELSE IF features_size = 0 THEN "InvalidArguments"
  ELSE IF samples_size < clusters_size THEN "InvalidArguments"
  ELSE IF device < 0 THEN "NoSuchDevice"
  ELSE IF device > Pow2(installed) THEN "NoSuchDevice"
  ELSE IF null_ptrs # {} THEN "InvalidArguments"
  ELSE IF arch < 60 /\ fp16x2 THEN "InvalidArguments"
  ELSE "Success"

\* the result code of check_args in a build for architecture arch
check_args(arch) ==
  IF clusters_size < 2 \/ clusters_size = UINT32_MAX THEN "InvalidArguments"
  ELSE IF features_size = 0 THEN "InvalidArguments"
  ELSE IF samples_size < clusters_size THEN "InvalidArguments"
  ELSE IF device < 0 THEN "NoSuchDevice"
  ELSE IF device > Pow2(installed) THEN "NoSuchDevice"
  ELSE IF null_ptrs # {} THEN "InvalidArguments"
  ELSE IF tolerance < 0 \/ tolerance > Tenths(1) THEN "InvalidArguments"
  ELSE IF yinyang_t < 0 \/ 2 * yinyang_t > Tenths(1) THEN "InvalidArguments"
  ELSE IF arch < 60 /\ fp16x2 THEN "InvalidArguments"
  ELSE "Success"

\* uint32_t yy_groups_size = yinyang_t * clusters_size
yy_groups_size == (yinyang_t * clusters_size) \div Tenths(1)

\* ------------------------------------------------------------ setup_devices
\* the loop over the mask: device dev is kept when its bit is set and
\* cudaSetDevice(dev) succeeds (sel: the devices it succeeds for)
RECURSIVE ExpandMask(_, _, _)
ExpandMask(mask, dev, sel) ==
  IF mask = 0 THEN <<>>
  ELSE (IF mask % 2 = 1 /\ dev \in sel THEN <<dev>> ELSE <<>>)
       \o ExpandMask(mask \div 2, dev + 1, sel)

MaskBit(mask, d) == (mask \div Pow2(d)) % 2 = 1

\* setup_devices without the devs.pop_back() that removes the designated
\* device again
setup_devices_NoPop(sel) ==
  IF device = 0 /\ installed = 0 THEN [devs |-> <<>>, work |-> <<>>]
  ELSE
    LET mask == IF device = 0 THEN Pow2(installed) - 1 ELSE device
        list == ExpandMask(mask, 0, sel)
        p2p_dp == device_ptrs >= 0 /\ ~MaskBit(0, device_ptrs)
        work == IF p2p_dp THEN Append(list, device_ptrs) ELSE list
    IN [devs |-> work, work |-> work]

\* setup_devices giving up as soon as one masked device cannot be selected
setup_devices_AllOrNothing(sel) ==
  IF device = 0 /\ installed = 0 THEN [devs |-> <<>>, work |-> <<>>]
  ELSE
    LET mask == IF device = 0 THEN Pow2(installed) - 1 ELSE device
        list == IF \E d \in 0..MaxInstalled : MaskBit(mask, d) /\ d \notin sel
                THEN <<>> ELSE ExpandMask(mask, 0, sel)
        p2p_dp == device_ptrs >= 0 /\ ~MaskBit(0, device_ptrs)
        work == IF p2p_dp THEN Append(list, device_ptrs) ELSE list
    IN [devs |-> list, work |-> work]

\* [devs: the returned list, work: the list the P2P steps ran over]
setup_devices(sel) ==
  IF device = 0 /\ installed = 0 THEN [devs |-> <<>>, work |-> <<>>]
  ELSE
    LET mask == IF device = 0 THEN Pow2(installed) - 1 ELSE device
        list == ExpandMask(mask, 0, sel)
        \* the loop ends when the shifted mask is 0
        device_after == 0
        p2p_dp == device_ptrs >= 0 /\ ~MaskBit(device_after, device_ptrs)
        work == IF p2p_dp THEN Append(list, device_ptrs) ELSE list
    IN [devs |-> IF p2p_dp THEN SubSeq(work, 1, Len(work) - 1) ELSE work,
        work |-> work]

\* ------------------------------------------------------------------ buffers
BufferNames == {"device_samples", "device_centroids", "device_assignments",
                "device_assignments_prev", "device_ccounts",
                "device_assignments_yy", "device_bounds_yy",
                "device_drifts_yy", "device_passed_yy", "device_centroids_yy"}

NoBufs == [b \in BufferNames |-> <<>>]

\* an entry of a udevptrs vector: the device it was made for, whether the
\* vector owns it, its capacity in elements and the region it points to
Entry(dev, owned, size, ptr) ==
  [dev |-> dev, owned |-> owned, size |-> size, ptr |-> ptr]

\* long long origin_devi: the position of the designated device in devs
OriginDevi ==
  IF \E i \in 1..Len(devs) : devs[i] = device_ptrs
  THEN (CHOOSE i \in 1..Len(devs) : devs[i] = device_ptrs) - 1
  ELSE -1

\* the region an entry points to: its own when it was allocated for the
\* entry, else the caller's or the region of the entry it aliases
Region(buf, i, e) ==
  IF e.ptr = "fresh" THEN [base |-> buf, at |-> i] ELSE [base |-> e.ptr, at |-> i]

\* the vectors are destroyed: every owned entry frees the region it points
\* to (via: the vector whose entry frees it)
udevptrs_destroy(b) ==
  {[base |-> Region(buf, i, b[buf][i]).base, at |-> i, via |-> buf] :
     <<buf, i>> \in {pr \in BufferNames \X (1..(MaxInstalled + 1)) :
                       /\ pr[2] <= Len(b[pr[1]])
                       /\ b[pr[1]][pr[2]].owned}}

\* the regions freed so far, once the step that is being taken has left
\* kmeans_cuda with the vectors b
Released(b) ==
  IF pc' = "done" /\ result' \in ResultCodes THEN udevptrs_destroy(b) ELSE freed

\* what cudaDeviceEnablePeerAccess can return, as the code tells the cases
\* apart, and the ways the results of a run are spread over the pairs
EnableResults == {"success", "already", "error"}
P2PPatterns == EnableResults \cup {"mixed"}

EnableResult(pat, dev, odev) ==
  IF pat = "mixed" THEN (IF dev < odev THEN "already" ELSE "error") ELSE pat

NoP2P == [queried |-> {}, enabled |-> {}, warned |-> FALSE, fatal |-> FALSE]

\* the P2P steps treating a warning as a failure of setup_devices
EnablePeerAccess_Fatal(work, access, pat) ==
  IF Len(work) > 1
  THEN LET queried == {pr \in Range(work) \X Range(work) : pr[1] > pr[2]}
           enabled == {pr \in Range(work) \X Range(work) : pr[1] # pr[2]}
           warned == \/ queried # {} /\ ~access
                     \/ \E pr \in enabled : EnableResult(pat, pr[1], pr[2]) = "error"
       IN [queried |-> queried, enabled |-> enabled, warned |-> warned,
           fatal |-> warned]
  ELSE NoP2P

\* the P2P steps over the working list: the pairs cudaDeviceCanAccessPeer is
\* asked about, the ordered pairs cudaDeviceEnablePeerAccess is called for,
\* whether a warning was logged, and whether the steps end setup_devices
EnablePeerAccess(work, access, pat) ==
  IF Len(work) > 1
  THEN LET queried == {pr \in Range(work) \X Range(work) : pr[1] > pr[2]}
           enabled == {pr \in Range(work) \X Range(work) : pr[1] # pr[2]}
           warned == \/ queried # {} /\ ~access
                     \/ \E pr \in enabled : EnableResult(pat, pr[1], pr[2]) = "error"
       IN [queried |-> queried, enabled |-> enabled, warned |-> warned,
           fatal |-> FALSE]
  ELSE NoP2P

\* ---------------------------------------------------------------------- Init
\* a call of kmeans_cuda about to start, its validity arguments drawn from
\* the given sets
Call(tolerances, yinyangs, fp16s, nulls, dptrs, allsel) ==
  /\ init \in InitMethods
  /\ tolerance \in tolerances
  /\ yinyang_t \in yinyangs
  /\ samples_size \in SamplesChoices
  /\ features_size \in FeaturesChoices
  /\ clusters_size \in ClustersChoices
  /\ device \in DeviceMasks
  /\ device_ptrs \in dptrs
  /\ fp16x2 \in fp16s
  /\ null_ptrs \in nulls
  /\ installed \in 0..MaxInstalled
  /\ selectable \in IF allsel THEN {0..(installed - 1)}
                    ELSE SUBSET (0..(installed - 1))
  /\ nan_samples \in IF init = "PlusPlus" THEN {{}, {0}} ELSE {{}}
  /\ pc = "check_args"
  /\ result = "Running"
  /\ devs = <<>>
  /\ work_devs = <<>>
  /\ p2p = NoP2P /\ freed = {}
  /\ bufs = NoBufs
  /\ samples_copied = {}
  /\ centroid_src = <<>>
  /\ pp_i = 0
  /\ seed = 0
  /\ rng = 0
  /\ collect = [idx |-> -1, centroids |-> FALSE, assignments |-> FALSE,
                peer |-> FALSE, synced |-> {}]
  /\ phases = <<>>
  /\ failed = ""
  /\ search = [phase |-> "off"]
  /\ rnd = [phase |-> "off"]

\* the calls of the driver's model: every size, mask, designated device and
\* init method, with tolerance, pointers and precision flag in range
Init == Call({0}, {0, Tenths(1) \div 2}, {FALSE}, {{}}, DevicePtrChoices, FALSE)

\* the calls of the validator's model: every argument check_args reads, on a
\* machine whose installed devices can all be selected and with no
\* designated device (check_args is passed neither)
InitArgs == Call(ToleranceChoices, YinyangChoices, BOOLEAN, NullPtrChoices,
                 {-1}, TRUE)

\* ---------------------------------------------------------------- kmeans_cuda
\* the devices selected and the P2P steps run before the arguments are
\* looked at
CheckArgs_AfterSetup ==
  /\ pc = "check_args"
  /\ \E arch \in CudaArchs :
       LET r == check_args(arch) IN
       /\ pc' = IF r = "Success" THEN "setup_devices" ELSE "done"
       /\ result' = IF r = "Success" THEN result ELSE r
  /\ devs' = setup_devices(selectable).devs
  /\ work_devs' = setup_devices(selectable).work
  /\ p2p' = EnablePeerAccess(setup_devices(selectable).work, TRUE, "success")
  /\ phases' = Append(phases, "check_args")
  /\ freed' = Released(bufs)
  /\ UNCHANGED <<argVars, envVars, bufs,
                 samples_copied, centroid_src, pp_i, seed, rng, collect, failed,
                 search, rnd>>

\* RETERR(check_args(...))
CheckArgs ==
  /\ pc = "check_args"
  /\ \E arch \in CudaArchs :
       LET r == check_args(arch) IN
       /\ pc' = IF r = "Success" THEN "setup_devices" ELSE "done"
       /\ result' = IF r = "Success" THEN result ELSE r
  /\ phases' = Append(phases, "check_args")
  /\ freed' = Released(bufs)
  /\ UNCHANGED <<argVars, envVars, devs, work_devs, p2p, bufs,
                 samples_copied, centroid_src, pp_i, seed, rng, collect, failed,
                 search, rnd>>

\* auto devs = setup_devices(...); if (devs.empty()) return kmcudaNoSuchDevice
SetupDevices ==
  /\ pc = "setup_devices"
  /\ \E access \in BOOLEAN, pat \in P2PPatterns :
       LET r == setup_devices(selectable)
           q == EnablePeerAccess(r.work, access, pat)
           list == IF q.fatal THEN <<>> ELSE r.devs
       IN
       /\ devs' = list
       /\ work_devs' = r.work
       /\ p2p' = q
       /\ pc' = IF list = <<>> THEN "done" ELSE "alloc_samples"
       /\ result' = IF list = <<>> THEN "NoSuchDevice" ELSE result
  /\ phases' = Append(phases, "setup_devices")
  /\ freed' = Released(bufs)
  /\ UNCHANGED <<argVars, envVars, bufs, samples_copied, centroid_src, pp_i,
                 seed, rng, collect, failed, search, rnd>>

\* --------------------------------------------------- buffer allocation
\* a request of the run for one entry of one buffer, in issue order
Req(buf, e) == [buf |-> buf, e |-> e]

\* bufs after the first upto requests of reqs were served
RECURSIVE ApplyAllocs(_, _, _)
ApplyAllocs(b, reqs, upto) ==
  IF upto = 0 THEN b
  ELSE LET prev == ApplyAllocs(b, reqs, upto - 1)
           r == reqs[upto]
       IN [prev EXCEPT ![r.buf] = Append(@, r.e)]

\* CUMALLOC_ONE(dest, size, dev): cudaMalloc, MemoryAllocationError when it fails
CUMALLOC_ONE(buf, size, dev) == Req(buf, Entry(dev, TRUE, size, "fresh"))

\* CUMALLOC(dest, size): FOR_EACH_DEV(CUMALLOC_ONE(dest, size, dev))
CUMALLOC(buf, size) == [i \in 1..Len(devs) |-> CUMALLOC_ONE(buf, size, devs[i])]

\* dest.emplace_back(ptr, false): the vector takes the pointer for its own
Borrow_Owned(buf, size, dev, ptr) == Req(buf, Entry(dev, TRUE, size, ptr))

\* dest.emplace_back(ptr, true): a borrowed entry, nothing is allocated
Borrow(buf, size, dev, ptr) == Req(buf, Entry(dev, FALSE, size, ptr))

\* for every selected device, borrow the caller's pointer on the designated
\* device and allocate on the others
AllocOrBorrow(buf, size) ==
  [i \in 1..Len(devs) |->
     IF devs[i] = device_ptrs THEN Borrow(buf, size, devs[i], "caller")
     ELSE CUMALLOC_ONE(buf, size, devs[i])]

\* ServeAllocs going on to the next phase after a failed cudaMalloc
ServeAllocs_Continue(reqs, phase, nextpc) ==
  \E k \in 0..Len(reqs) :
    /\ k > 0 => reqs[k].e.owned
    /\ bufs' = ApplyAllocs(bufs, reqs, IF k = 0 THEN Len(reqs) ELSE k - 1)
    /\ pc' = nextpc
    /\ result' = result
    /\ failed' = IF k = 0 THEN failed ELSE phase
    /\ phases' = Append(phases, phase)
    /\ freed' = Released(bufs')

\* the requests of one phase are served in order; k = 0: all are served,
\* k > 0: the cudaMalloc of request k fails and the call returns at once
ServeAllocs(reqs, phase, nextpc) ==
  \E k \in 0..Len(reqs) :
    /\ k > 0 => reqs[k].e.owned
    /\ bufs' = ApplyAllocs(bufs, reqs, IF k = 0 THEN Len(reqs) ELSE k - 1)
    /\ pc' = IF k = 0 THEN nextpc ELSE "done"
    /\ result' = IF k = 0 THEN result ELSE "MemoryAllocationError"
    /\ failed' = IF k = 0 THEN failed ELSE phase
    /\ phases' = Append(phases, phase)
    /\ freed' = Released(bufs')

U32(x) == x % (UINT32_MAX + 1)

device_samples_size == samples_size * features_size
centroids_size == clusters_size * features_size

\* the largest per-device share of amount elements
max_distribute_length(amount) ==
  (amount + Len(devs) - 1) \div Len(devs)

AllocSamples ==
  /\ pc = "alloc_samples"
  /\ ServeAllocs(AllocOrBorrow("device_samples", device_samples_size),
                 "alloc_samples", "copy_samples")
  /\ UNCHANGED <<argVars, envVars, devs, work_devs, p2p,
                 samples_copied, centroid_src, pp_i, seed, rng, collect, search, rnd>>

\* the copies leaving out the position whose number is the designated
\* device's id, instead of the position the designated device has in devs
CopyTargets_SkipDeviceId ==
  IF device_ptrs < 0 THEN [i \in 1..Len(devs) |-> i - 1]
  ELSE SelectSeq([i \in 1..Len(devs) |-> i - 1],
                 LAMBDA devi : devi # device_ptrs)

\* the positions (0-based) an asynchronous copy is issued for, in order:
\* every device in host mode, every device but the designated one otherwise
CopyTargets ==
  IF device_ptrs < 0 THEN [i \in 1..Len(devs) |-> i - 1]
  ELSE SelectSeq([i \in 1..Len(devs) |-> i - 1],
                 LAMBDA devi : devi # OriginDevi)

\* CUMEMCPY_H2D_ASYNC / cudaMemcpyPeerAsync of the samples
CopySamples ==
  /\ pc = "copy_samples"
  /\ \E k \in 0..Len(CopyTargets) :
       /\ samples_copied' =
            {CopyTargets[i] : i \in 1..(IF k = 0 THEN Len(CopyTargets) ELSE k - 1)}
       /\ pc' = IF k = 0 THEN "alloc_centroids" ELSE "done"
       /\ result' = IF k = 0 THEN result ELSE "MemoryCopyError"
       /\ failed' = IF k = 0 THEN failed ELSE "copy_samples"
  /\ phases' = Append(phases, "copy_samples")
  /\ freed' = Released(bufs)
  /\ UNCHANGED <<argVars, envVars, devs, work_devs, p2p, bufs,
                 centroid_src, pp_i, seed, rng, collect, search, rnd>>

AllocCentroids ==
  /\ pc = "alloc_centroids"
  /\ ServeAllocs(AllocOrBorrow("device_centroids", centroids_size),
                 "alloc_centroids", "alloc_assignments")
  /\ UNCHANGED <<argVars, envVars, devs, work_devs, p2p,
                 samples_copied, centroid_src, pp_i, seed, rng, collect, search, rnd>>

\* device_assignments, then device_assignments_prev, then device_ccounts
AllocAssignments ==
  /\ pc = "alloc_assignments"
  /\ ServeAllocs(AllocOrBorrow("device_assignments", samples_size)
                   \o CUMALLOC("device_assignments_prev", samples_size)
                   \o CUMALLOC("device_ccounts", clusters_size),
                 "alloc_assignments", "alloc_yy")
  /\ UNCHANGED <<argVars, envVars, devs, work_devs, p2p,
                 samples_copied, centroid_src, pp_i, seed, rng, collect, search, rnd>>

\* the yinyang buffers, allocated only when yy_groups_size >= 1
yy_max_length == max_distribute_length(samples_size)
yyb_size == yy_max_length * (yy_groups_size + 1)
passed_length == Max(yy_max_length, U32(clusters_size + yy_groups_size))
yyc_size == U32(yy_groups_size * features_size)

YYRequests ==
  IF yy_groups_size >= 1
  THEN CUMALLOC("device_assignments_yy", clusters_size)
         \o CUMALLOC("device_bounds_yy", yyb_size)
         \o CUMALLOC("device_drifts_yy", centroids_size + clusters_size)
         \o CUMALLOC("device_passed_yy", passed_length)
         \o (IF yyc_size <= passed_length
             THEN [i \in 1..Len(devs) |->
                     Borrow("device_centroids_yy", passed_length, devs[i],
                            "device_passed_yy")]
             ELSE CUMALLOC("device_centroids_yy", yyc_size))
  ELSE <<>>

AllocYY ==
  /\ pc = "alloc_yy"
  /\ ServeAllocs(YYRequests, "alloc_yy", "kmeans_cuda_setup")
  /\ UNCHANGED <<argVars, envVars, devs, work_devs, p2p,
                 samples_copied, centroid_src, pp_i, seed, rng, collect, search, rnd>>

\* lines 347-352: the steps invoked, in order, and the one that failed ("":
\* none); print_memory_stats runs when verbosity > 1 and kmeans_cuda_setup
\* unless print_memory_stats failed
SetupSteps(verbosity, stats_ok, setup_ok) ==
  IF verbosity > 1 /\ ~stats_ok
  THEN [steps |-> <<"print_memory_stats">>, failed |-> "print_memory_stats"]
  ELSE [steps |-> (IF verbosity > 1 THEN <<"print_memory_stats">> ELSE <<>>)
                    \o <<"kmeans_cuda_setup">>,
        failed |-> IF setup_ok THEN "" ELSE "kmeans_cuda_setup"]

\* the run going on to kmeans_init_centroids after a failed setup
KernelSetup_IgnoreFailure ==
  /\ pc = "kmeans_cuda_setup"
  /\ \E verbosity \in Verbosities, stats_ok \in BOOLEAN, setup_ok \in BOOLEAN :
       LET r == SetupSteps(verbosity, stats_ok, setup_ok) IN
       /\ pc' = "init_centroids"
       /\ result' = result
       /\ failed' = IF r.failed = "" THEN failed ELSE r.failed
       /\ phases' = phases \o r.steps
  /\ freed' = Released(bufs)
  /\ UNCHANGED <<argVars, envVars, devs, work_devs, p2p, bufs,
                 samples_copied, centroid_src, pp_i, seed, rng, collect, search, rnd>>

\* RETERR(print_memory_stats(devs)) when verbosity > 1, then
\* RETERR(kmeans_cuda_setup(...))
KernelSetup ==
  /\ pc = "kmeans_cuda_setup"
  /\ \E verbosity \in Verbosities, stats_ok \in BOOLEAN, setup_ok \in BOOLEAN :
       LET r == SetupSteps(verbosity, stats_ok, setup_ok) IN
       /\ pc' = IF r.failed = "" THEN "init_centroids" ELSE "done"
       /\ result' = IF r.failed = "" THEN result ELSE "RuntimeError"
       /\ failed' = IF r.failed = "" THEN failed ELSE r.failed
       /\ phases' = phases \o r.steps
  /\ freed' = Released(bufs)
  /\ UNCHANGED <<argVars, envVars, devs, work_devs, p2p, bufs,
                 samples_copied, centroid_src, pp_i, seed, rng, collect, search, rnd>>

\* ------------------------------------------------------------------- rand
\* one step of the generator behind rand(): the next state, which is also
\* the value rand() returns
rand(x) == (5 * x + 3) % (RAND_MAX + 1)

\* a srand that leaves the generator in the state it finds it in
srand_Keep(x, sd) == x

\* srand(seed): the state after seeding, whatever the state x before
srand(x, sd) == sd % (RAND_MAX + 1)

Swap(s, i, j) == [s EXCEPT ![i + 1] = At(s, j), ![j + 1] = At(s, i)]

\* std::random_shuffle(chosen.begin(), chosen.end()) from position i on, as
\* libstdc++ implements it, drawing from rand():
\* for (i = 1; i < n; i++) swap(chosen[i], chosen[rand() % (i + 1)])
RECURSIVE random_shuffle(_, _, _)
random_shuffle(chosen, i, x) ==
  IF i >= Len(chosen) THEN [chosen |-> chosen, rng |-> x]
  ELSE LET r == rand(x)
       IN random_shuffle(Swap(chosen, i, r % (i + 1)), i + 1, r)

\* chosen[s] = s for every s, then the shuffle
ShuffledSamples(n, x) == random_shuffle([s \in 1..n |-> s - 1], 1, x)

\* ------------------------------------------------- cumulative-weight search
LinearThreshold == 100

\* dist_sum2 < choice_sum, where choice_sum = (r / RAND_MAX) * dist_sum
Below(dist_sum2, r, dist_sum) == dist_sum2 * RAND_MAX < r * dist_sum

\* uint32_t choice_approx = choice * samples_size
choice_approx(r, n) == (r * n) \div RAND_MAX

\* host_dists[j]; outside the array the read yields g
ReadDist(d, j, g) == IF j >= 0 /\ j < Len(d) THEN At(d, j) ELSE g

\* The loops below run their rounds in the source's order, each round with
\* the source's guard and body; a range of rounds is split in two halves
\* only to keep the evaluation shallow.

\* the rounds j = lo .. hi - 1 of
\*   for (; j < samples_size && dist_sum2 < choice_sum; j++) dist_sum2 += host_dists[j]
\* entered with dist_sum2 = s: where j and dist_sum2 stand after them
RECURSIVE ForwardRounds(_, _, _, _, _, _)
ForwardRounds(d, lo, hi, s, r, dist_sum) ==
  IF hi = lo + 1
  THEN IF lo < Len(d) /\ Below(s, r, dist_sum)
       THEN [j |-> lo + 1, s |-> s + At(d, lo), stopped |-> FALSE]
       ELSE [j |-> lo, s |-> s, stopped |-> TRUE]
  ELSE LET mid == (lo + hi) \div 2
           first == ForwardRounds(d, lo, mid, s, r, dist_sum)
       IN IF first.stopped THEN first
          ELSE ForwardRounds(d, mid, hi, first.s, r, dist_sum)

\* the loop from j on: the j it ends with
ForwardScan(d, j, dist_sum2, r, dist_sum) ==
  IF j >= Len(d) THEN j
  ELSE ForwardRounds(d, j, Len(d), dist_sum2, r, dist_sum).j

\* host_dists[lo] + ... + host_dists[hi - 1]
RECURSIVE SumRange(_, _, _)
SumRange(d, lo, hi) ==
  IF hi <= lo THEN 0
  ELSE IF hi = lo + 1 THEN At(d, lo)
  ELSE LET mid == (lo + hi) \div 2
       IN SumRange(d, lo, mid) + SumRange(d, mid, hi)

\* for (t = 0; t < choice_approx; t++) dist_sum2 += host_dists[t]
PartialSum(d, t) == SumRange(d, 0, t)

\* the rounds j = hi, hi - 1, .., lo of
\*   for (; j > 1 && dist_sum2 >= choice_sum; j--) dist_sum2 -= host_dists[j]
\* entered with dist_sum2 = s; oob: whether a read left the array
RECURSIVE BackwardRounds(_, _, _, _, _, _, _)
BackwardRounds(d, lo, hi, s, r, dist_sum, g) ==
  IF hi = lo
  THEN IF hi > 1 /\ ~Below(s, r, dist_sum)
       THEN [j |-> hi - 1, s |-> s - ReadDist(d, hi, g), stopped |-> FALSE,
             oob |-> hi >= Len(d)]
       ELSE [j |-> hi, s |-> s, stopped |-> TRUE, oob |-> FALSE]
  ELSE LET mid == (lo + hi) \div 2
           first == BackwardRounds(d, mid + 1, hi, s, r, dist_sum, g)
           rest == BackwardRounds(d, lo, mid, first.s, r, dist_sum, g)
       IN IF first.stopped THEN first
          ELSE [rest EXCEPT !.oob = first.oob \/ rest.oob]

\* the loop from j on: the j it ends with
BackwardWalk(d, j, dist_sum2, r, dist_sum, g) ==
  IF j <= 1 THEN [j |-> j, oob |-> FALSE]
  ELSE LET w == BackwardRounds(d, 2, j, dist_sum2, r, dist_sum, g)
       IN [j |-> w.j, oob |-> w.oob]

\* the search of kmeans_init_centroids for draw r: j, the path taken and
\* whether host_dists was read outside its bounds (the read then yields g)
PlusPlusSearch(d, r, dist_sum, g) ==
  LET ca == choice_approx(r, Len(d)) IN
  IF ca < LinearThreshold
  THEN [j |-> ForwardScan(d, 0, 0, r, dist_sum), path |-> "linear", oob |-> FALSE]
  ELSE LET dist_sum2 == PartialSum(d, ca) IN
       IF Below(dist_sum2, r, dist_sum)
       THEN [j |-> ForwardScan(d, ca, dist_sum2, r, dist_sum),
             path |-> "forward", oob |-> FALSE]
       ELSE LET w == BackwardWalk(d, ca, dist_sum2, r, dist_sum, g)
            IN [j |-> w.j + 1, path |-> "backward", oob |-> w.oob]

\* ---------------------------------------------------- kmeans_init_centroids
Unset == -1
Imported == -2
GarbageSlot == -3

Slots(v) == [c \in 1..clusters_size |-> v]

\* the first upto of the copies (devi, slot c <- sample src[c]) are queued,
\* device by device and slot by slot; cs lists the slots copied per device
RECURSIVE QueueCopies(_, _, _, _)
QueueCopies(cur, cs, src, upto) ==
  IF upto = 0 THEN cur
  ELSE LET prev == QueueCopies(cur, cs, src, upto - 1)
           devi == ((upto - 1) \div Len(cs)) + 1
           c == cs[((upto - 1) % Len(cs)) + 1]
       IN [prev EXCEPT ![devi][c + 1] = src[c + 1]]

\* a batch of asynchronous copies into the centroid buffers: all of them,
\* or cudaMemcpyAsync number k fails and the call returns MemoryCopyError
CopyCentroids(cur, cs, src, phase, nextpc) ==
  \E k \in 0..(Len(devs) * Len(cs)) :
    /\ centroid_src' =
         QueueCopies(cur, cs, src, IF k = 0 THEN Len(devs) * Len(cs) ELSE k - 1)
    /\ pc' = IF k = 0 THEN nextpc ELSE "done"
    /\ result' = IF k = 0 THEN result ELSE "MemoryCopyError"
    /\ failed' = IF k = 0 THEN failed ELSE phase

AllSlots == [c \in 1..clusters_size |-> c - 1]

\* case kmcudaInitMethodImport: one copy of the whole array per target
InitImport ==
  /\ pc = "init_centroids" /\ init = "Import"
  /\ \E sd \in Seeds : seed' = sd /\ rng' = srand(rng, sd)
  /\ \E k \in 0..Len(CopyTargets) :
       /\ centroid_src' =
            [i \in 1..Len(devs) |->
               \* a borrowed entry is the caller's array itself
               IF bufs.device_centroids[i].ptr = "caller"
                  \/ \E t \in 1..(IF k = 0 THEN Len(CopyTargets) ELSE k - 1) :
                       CopyTargets[t] = i - 1
               THEN Slots(Imported) ELSE Slots(Unset)]
       /\ pc' = IF k = 0 THEN "kmeans_cuda_yy" ELSE "done"
       /\ result' = IF k = 0 THEN result ELSE "MemoryCopyError"
       /\ failed' = IF k = 0 THEN failed ELSE "init_centroids"
  /\ phases' = Append(phases, "init_centroids")
  /\ freed' = Released(bufs)
  /\ UNCHANGED <<argVars, envVars, devs, work_devs, p2p, bufs,
                 samples_copied, pp_i, collect, search, rnd>>

\* case kmcudaInitMethodRandom
InitRandom ==
  /\ pc = "init_centroids" /\ init = "Random"
  /\ \E sd \in Seeds :
       LET sh == ShuffledSamples(samples_size, srand(rng, sd)) IN
       /\ seed' = sd
       /\ rng' = sh.rng
       /\ CopyCentroids([i \in 1..Len(devs) |-> Slots(Unset)], AllSlots,
                        sh.chosen, "init_centroids", "kmeans_cuda_yy")
  /\ phases' = Append(phases, "init_centroids")
  /\ freed' = Released(bufs)
  /\ UNCHANGED <<argVars, envVars, devs, work_devs, p2p, bufs,
                 samples_copied, pp_i, collect, search, rnd>>

\* case kmcudaInitMethodPlusPlus: srand(seed), then the probe loop
InitPlusPlus ==
  /\ pc = "init_centroids" /\ init = "PlusPlus"
  /\ \E sd \in Seeds : seed' = sd /\ rng' = srand(rng, sd)
  /\ centroid_src' = [i \in 1..Len(devs) |-> Slots(Unset)]
  /\ pc' = "pp_probe"
  /\ phases' = Append(phases, "init_centroids")
  /\ UNCHANGED <<freed, argVars, envVars, result, devs, work_devs, p2p, bufs,
                 samples_copied, pp_i, collect, failed, search, rnd>>

\* one round of while (smoke != smoke): draw a sample, read its first
\* feature from devs[0]; leave the loop when it is not NaN and queue the
\* copy of that sample into slot 0 of every device
PlusPlusProbe ==
  /\ pc = "pp_probe"
  /\ rng' = rand(rng)
  /\ LET first == rand(rng) % samples_size IN
     \E probe_ok \in BOOLEAN :
       IF ~probe_ok
       THEN /\ pc' = "done" /\ result' = "MemoryCopyError"
            /\ failed' = "init_centroids"
            /\ UNCHANGED <<centroid_src, pp_i>>
       ELSE IF first \in nan_samples
       THEN UNCHANGED <<pc, result, failed, centroid_src, pp_i>>
       ELSE /\ pp_i' = 1
            /\ CopyCentroids(centroid_src, <<0>>, <<first>>, "init_centroids",
                             IF clusters_size > 1 THEN "pp_step"
                             ELSE "kmeans_cuda_yy")
  /\ freed' = Released(bufs)
  /\ UNCHANGED <<argVars, envVars, devs, work_devs, p2p, bufs,
                 samples_copied, seed, collect, phases, search, rnd>>

\* the distance vectors the kernel returns in a run: all samples at
\* distance 0 (every sample equals a centroid) or all at distance 1
DistVectors == {[i \in 1..samples_size |-> w] : w \in {0, 1}}

\* the sum the kernel returns with the vector
SumSeq(d, n) == SumRange(d, 0, n)

\* one round of for (i = 1; i < clusters_size; i++): the distance kernel,
\* the draw, the search and the copy of sample j - 1 into slot i
PlusPlusStep ==
  /\ pc = "pp_step"
  /\ rng' = rand(rng)
  /\ \/ \* RETERR(kmeans_cuda_plus_plus(...))
        /\ pc' = "done" /\ result' = "RuntimeError"
        /\ failed' = "init_centroids"
        /\ UNCHANGED <<centroid_src, pp_i>>
     \/ \E host_dists \in DistVectors :
          LET f == PlusPlusSearch(host_dists, rand(rng),
                                  SumSeq(host_dists, samples_size), 0)
              last == pp_i + 1 >= clusters_size
              nextpc == IF last THEN "kmeans_cuda_yy" ELSE "pp_step"
              src == [c \in 1..clusters_size |-> f.j - 1]
          IN
          IF f.j >= 1 /\ f.j <= samples_size
          THEN /\ pp_i' = pp_i + 1
               /\ CopyCentroids(centroid_src, <<pp_i>>, src, "init_centroids",
                                nextpc)
          \* j = 0 or j > samples_size: the assert, or a copy from outside
          \* the sample buffer of each device, whose contents may or may not
          \* be the same on all of them
          ELSE \E o \in UBOutcomes, same \in BOOLEAN :
                 /\ (o # "garbage" => same)
                 /\ failed' = failed
                 /\ pc' = IF o = "garbage" THEN nextpc ELSE "done"
                 /\ result' = IF o = "abort" THEN "Aborted"
                              ELSE IF o = "copy_error" THEN "MemoryCopyError"
                              ELSE result
                 /\ pp_i' = IF o = "garbage" THEN pp_i + 1 ELSE pp_i
                 /\ centroid_src' =
                      IF o = "garbage"
                      THEN [i \in 1..Len(devs) |->
                              [centroid_src[i] EXCEPT ![pp_i + 1] =
                                 IF same THEN GarbageSlot
                                 ELSE GarbageSlot - i]]
                      ELSE centroid_src
  /\ freed' = Released(bufs)
  /\ UNCHANGED <<argVars, envVars, devs, work_devs, p2p, bufs,
                 samples_copied, seed, collect, phases, search, rnd>>

\* RETERR(kmeans_cuda_yy(...))
Refine ==
  /\ pc = "kmeans_cuda_yy"
  /\ \E ok \in BOOLEAN :
       /\ pc' = IF ok THEN "collect" ELSE "done"
       /\ result' = IF ok THEN result ELSE "RuntimeError"
       /\ failed' = IF ok THEN failed ELSE "kmeans_cuda_yy"
  /\ phases' = Append(phases, "kmeans_cuda_yy")
  /\ freed' = Released(bufs)
  /\ UNCHANGED <<argVars, envVars, devs, work_devs, p2p, bufs,
                 samples_copied, centroid_src, pp_i, seed, rng, collect, search, rnd>>

\* ---------------------------------------------------------- result collector
\* SYNC_ALL_DEVS: the devices synchronized
SYNC_ALL_DEVS == Range(devs)

\* the collector indexing by device id in both branches
CollectIndex_DeviceId == Back(devs)

\* the index the collector reads device_centroids and device_assignments at
CollectIndex == IF device_ptrs < 0 THEN Back(devs) ELSE Len(devs) - 1

\* what one copy of the collector can do: from an entry of the buffer it
\* succeeds or fails; from outside the buffer anything in UBOutcomes
CopyOutcomes(idx, buf) ==
  IF idx < Len(buf) THEN {"ok", "fail"} ELSE UBOutcomes

Wrote(o) == o \in {"ok", "garbage"}

Collect ==
  /\ pc = "collect"
  /\ pc' = "done"
  /\ phases' = Append(phases, "collect")
  /\ IF OriginDevi >= 0
     THEN /\ result' = "Success"
          /\ UNCHANGED <<collect, failed>>
     ELSE \E o1 \in CopyOutcomes(CollectIndex, bufs.device_centroids),
             o2 \in CopyOutcomes(CollectIndex, bufs.device_assignments) :
            LET bad == IF Wrote(o1) THEN o2 ELSE o1 IN
            /\ collect' = [idx |-> CollectIndex,
                           centroids |-> Wrote(o1),
                           assignments |-> Wrote(o1) /\ Wrote(o2),
                           peer |-> device_ptrs >= 0,
                           synced |-> IF device_ptrs >= 0 /\ Wrote(o1) /\ Wrote(o2)
                                      THEN SYNC_ALL_DEVS ELSE {}]
            /\ result' = IF Wrote(o1) /\ Wrote(o2) THEN "Success"
                         ELSE IF bad = "abort" THEN "Aborted"
                         ELSE "MemoryCopyError"
            /\ failed' = IF ~(Wrote(o1) /\ Wrote(o2)) /\ bad = "fail"
                         THEN "collect" ELSE failed
  /\ freed' = Released(bufs)
  /\ UNCHANGED <<argVars, envVars, devs, work_devs, p2p, bufs,
                 samples_copied, centroid_src, pp_i, seed, rng, search, rnd>>

Next ==
  \/ CheckArgs
  \/ SetupDevices
  \/ AllocSamples
  \/ CopySamples
  \/ AllocCentroids
  \/ AllocAssignments
  \/ AllocYY
  \/ KernelSetup
  \/ InitImport
  \/ InitRandom
  \/ InitPlusPlus
  \/ PlusPlusProbe
  \/ PlusPlusStep
  \/ Refine
  \/ Collect

Spec == Init /\ [][Next]_vars

\* the validator on its own
NextArgs == CheckArgs

SpecArgs == InitArgs /\ [][NextArgs]_vars

\* ------------------------------------------ the search on its own (k-means++)
\* host_dists of SearchN samples: weight head before position split, weight
\* tail from it on, and one heavier sample at position spike (-1: none)
DistShape(head, tail, split, spike) ==
  [i \in 1..SearchN |->
     IF i - 1 = spike THEN MaxDist + 1
     ELSE IF i - 1 < split THEN head ELSE tail]

SplitChoices == {0, 1, LinearThreshold, LinearThreshold + 20, SearchN - 1}
SpikeChoices == {-1, 0, LinearThreshold + 14, SearchN - 1}

\* what a read past the end of host_dists can yield
GarbageDists == {-1, 0, MaxDist + 1}

\* no call of kmeans_cuda is in progress
NoCall ==
  /\ init = "PlusPlus" /\ tolerance = 0 /\ yinyang_t = 0
  /\ samples_size = MaxSamples /\ features_size = 4 /\ clusters_size = 2
  /\ device = 0 /\ device_ptrs = -1 /\ fp16x2 = FALSE /\ null_ptrs = {}
  /\ installed = MaxInstalled /\ nan_samples = {}
  /\ selectable = 0..(installed - 1)
  /\ pc = "idle" /\ result = "Running"
  /\ devs = <<>> /\ work_devs = <<>> /\ p2p = NoP2P /\ freed = {}
  /\ bufs = NoBufs /\ samples_copied = {}
  /\ centroid_src = <<>> /\ pp_i = 0 /\ seed = 0 /\ rng = 0
  /\ collect = [idx |-> -1, centroids |-> FALSE, assignments |-> FALSE,
                peer |-> FALSE, synced |-> {}]
  /\ phases = <<>> /\ failed = ""
  /\ rnd = [phase |-> "off"]

InitSearch ==
  /\ NoCall
  /\ \E head \in 0..MaxDist, tail \in 0..MaxDist, split \in SplitChoices,
        spike \in SpikeChoices, r \in 0..RAND_MAX :
       LET d == DistShape(head, tail, split, spike) IN
       search = [phase |-> "input", host_dists |-> d, r |-> r,
                 dist_sum |-> SumSeq(d, SearchN),
                 j |-> 0, path |-> "", oob |-> FALSE]

\* lines 220-245 for one distance vector and one draw
SearchStep ==
  /\ search.phase = "input"
  /\ \E g \in GarbageDists :
       LET f == PlusPlusSearch(search.host_dists, search.r, search.dist_sum, g)
       IN search' = [search EXCEPT !.phase = "found", !.j = f.j,
                                   !.path = f.path, !.oob = f.oob]
  /\ UNCHANGED <<argVars, envVars, runVars, rnd>>

SpecSearch == InitSearch /\ [][SearchStep]_vars

\* ------------------------- two calls of the random initializer in one process
\* the requests of a run without yinyang buffers, in issue order
PlainRequests ==
  AllocOrBorrow("device_samples", device_samples_size)
    \o AllocOrBorrow("device_centroids", centroids_size)
    \o AllocOrBorrow("device_assignments", samples_size)
    \o CUMALLOC("device_assignments_prev", samples_size)
    \o CUMALLOC("device_ccounts", clusters_size)

\* a run in random mode that reached kmeans_init_centroids, every device
\* selectable and the generator in any state earlier code left it in
InitRandomCalls ==
  /\ init = "Random" /\ tolerance = 0 /\ yinyang_t = 0
  /\ samples_size \in SamplesChoices
  /\ features_size = 4
  /\ clusters_size \in 2..samples_size
  /\ device \in 1..(Pow2(MaxInstalled) - 1)
  /\ device_ptrs \in {-1, 0}
  /\ fp16x2 = FALSE /\ null_ptrs = {}
  /\ installed = MaxInstalled /\ nan_samples = {}
  /\ selectable = 0..(installed - 1)
  /\ pc = "init_centroids" /\ result = "Running"
  /\ devs = setup_devices(selectable).devs
  /\ work_devs = setup_devices(selectable).work
  /\ p2p = EnablePeerAccess(work_devs, TRUE, "success") /\ freed = {}
  /\ bufs = ApplyAllocs(NoBufs, PlainRequests, Len(PlainRequests))
  /\ samples_copied = Range(CopyTargets)
  /\ centroid_src = <<>> /\ pp_i = 0 /\ seed = 0
  /\ rng \in 0..RAND_MAX
  /\ collect = [idx |-> -1, centroids |-> FALSE, assignments |-> FALSE,
                peer |-> FALSE, synced |-> {}]
  /\ phases = <<"check_args", "setup_devices", "alloc_samples", "copy_samples",
                "alloc_centroids", "alloc_assignments", "alloc_yy",
                "kmeans_cuda_setup">>
  /\ failed = ""
  /\ search = [phase |-> "off"]
  /\ rnd = [phase |-> "first", seed |-> 0, centroid_src |-> <<>>]

\* kmeans_init_centroids is called again in the same process, on the same
\* samples and devices; the first call's seed and choice are kept aside
RandomAgain ==
  /\ rnd.phase = "first"
  /\ pc = "kmeans_cuda_yy"
  /\ rnd' = [phase |-> "second", seed |-> seed, centroid_src |-> centroid_src]
  /\ pc' = "init_centroids"
  /\ centroid_src' = <<>>
  /\ UNCHANGED <<freed, argVars, envVars, result, devs, work_devs, p2p, bufs,
                 samples_copied, pp_i, seed, rng, collect, phases, failed,
                 search>>

NextRandom ==
  \/ InitRandom
  \/ RandomAgain

SpecRandom == InitRandomCalls /\ [][NextRandom]_vars

\* ------------------------------------------ the yinyang buffers with big sizes
\* largest value of features_size (uint16_t, narrowed like UINT32_MAX)
UINT16_MAX == 255

BigClusters == {2, 4, 516, 600, 2 * ((UINT32_MAX + 1) \div 3) + 10, UINT32_MAX - 1}
BigSamples == {600, UINT32_MAX}
BigFeatures == {1, 4, UINT16_MAX}

\* a run that has allocated the plain buffers and copied the samples, with
\* sizes from all over the words' ranges
InitSizes ==
  /\ init = "Random" /\ tolerance = 0
  /\ yinyang_t \in {1, Tenths(1) \div 2}
  /\ samples_size \in BigSamples
  /\ features_size \in BigFeatures
  /\ clusters_size \in {c \in BigClusters : c <= samples_size}
  /\ device \in 1..(Pow2(MaxInstalled) - 1)
  /\ device_ptrs \in {-1, 0}
  /\ fp16x2 = FALSE /\ null_ptrs = {}
  /\ installed = MaxInstalled /\ nan_samples = {}
  /\ selectable = 0..(installed - 1)
  /\ pc = "alloc_yy" /\ result = "Running"
  /\ devs = setup_devices(selectable).devs
  /\ work_devs = setup_devices(selectable).work
  /\ p2p = EnablePeerAccess(work_devs, TRUE, "success") /\ freed = {}
  /\ bufs = ApplyAllocs(NoBufs, PlainRequests, Len(PlainRequests))
  /\ samples_copied = Range(CopyTargets)
  /\ centroid_src = <<>> /\ pp_i = 0 /\ seed = 0 /\ rng = 0
  /\ collect = [idx |-> -1, centroids |-> FALSE, assignments |-> FALSE,
                peer |-> FALSE, synced |-> {}]
  /\ phases = <<"check_args", "setup_devices", "alloc_samples", "copy_samples",
                "alloc_centroids", "alloc_assignments">>
  /\ failed = ""
  /\ search = [phase |-> "off"]
  /\ rnd = [phase |-> "off"]

NextSizes == AllocYY

SpecSizes == InitSizes /\ [][NextSizes]_vars

\* ======================================================================
\* The claims
\* ======================================================================

\* a naive scan of the whole prefix sum from index 0: the number of samples
\* added until the prefix sum reaches choice * dist_sum
NaiveScan(d, r, dist_sum) == ForwardScan(d, 0, 0, r, dist_sum)

\* C1: for every distance vector, its total as dist_sum and every draw, the
\* sample the search selects (j - 1) is the one a naive scan of the prefix
\* sum from index 0 selects, on the linear path, the forward path and the
\* backward path alike.
C1_SearchMatchesNaive ==
  search.phase = "found" =>
    search.j - 1 = NaiveScan(search.host_dists, search.r, search.dist_sum) - 1

\* ---------------------------------------------------------------------
\* the sizes pass check_args
SizesValid ==
  /\ clusters_size >= 2 /\ clusters_size # UINT32_MAX
  /\ features_size # 0
  /\ samples_size >= clusters_size

SetupRan == \E n \in 1..Len(phases) : phases[n] = "setup_devices"

CollectRan == \E n \in 1..Len(phases) : phases[n] = "collect"

\* the mask setup_devices expands
EffectiveMask == IF device = 0 THEN Pow2(installed) - 1 ELSE device

\* the devices of the mask that can be selected: installed, and
\* cudaSetDevice succeeds
SelectableInMask == {d \in selectable : MaskBit(EffectiveMask, d)}

Ascending(s) == \A m, n \in 1..Len(s) : m < n => s[m] < s[n]

NoCollect == [idx |-> -1, centroids |-> FALSE, assignments |-> FALSE,
              peer |-> FALSE, synced |-> {}]

\* C2: in host mode, once the collector has run, the entry it read of
\* device_centroids and device_assignments is entry devs.size() - 1, the
\* last selected device's, and that index is within both buffers.
C2_HostCopyFromLastEntry ==
  device_ptrs < 0 /\ CollectRan =>
    /\ collect.idx = Len(devs) - 1
    /\ collect.idx < Len(bufs.device_centroids)
    /\ collect.idx < Len(bufs.device_assignments)

\* C3 as stated: whenever a device is designated, a call that returned
\* Success has peer-copied both results from the last selected device's
\* entry and has synchronized every device.
C3_DesignatedAlwaysCopied ==
  device_ptrs >= 0 /\ pc = "done" /\ result = "Success" =>
    /\ collect.peer /\ collect.centroids /\ collect.assignments
    /\ collect.idx = Len(devs) - 1
    /\ collect.synced = Range(devs)

\* C3: when the designated device is not one of the selected devices, a
\* call that returned Success has peer-copied both results from the last
\* selected device's entry and has synchronized every device; when it is
\* one of them, the collector has neither copied nor synchronized.
C3_DesignatedOutsideCopied ==
  device_ptrs >= 0 /\ pc = "done" /\ result = "Success" =>
    IF OriginDevi < 0
    THEN /\ collect.peer /\ collect.centroids /\ collect.assignments
         /\ collect.idx = Len(devs) - 1
         /\ collect.idx < Len(bufs.device_centroids)
         /\ collect.synced = Range(devs)
    ELSE collect = NoCollect

C3_Witness ==
  /\ device_ptrs >= 0 /\ pc = "done" /\ result = "Success"
  /\ OriginDevi < 0 /\ Len(devs) >= 1 /\ devs[1] > device_ptrs
  /\ collect.peer /\ collect.synced = Range(devs)

\* C4: whatever the other arguments, the call returns InvalidArguments when
\* clusters_size < 2, when clusters_size = UINT32_MAX and when
\* samples_size < clusters_size, and goes no further than check_args.
C4_BadSizesInvalid ==
  (/\ pc # "check_args"
   /\ \/ clusters_size < 2
      \/ clusters_size = UINT32_MAX
      \/ samples_size < clusters_size)
  => (pc = "done" /\ result = "InvalidArguments")

C4_Witness ==
  /\ pc = "done" /\ result = "InvalidArguments"
  /\ clusters_size >= 2 /\ clusters_size # UINT32_MAX
  /\ samples_size < clusters_size
  /\ device > Pow2(installed) /\ null_ptrs # {} /\ tolerance < 0
  /\ 2 * yinyang_t > Tenths(1) /\ fp16x2

FractionsInvalid ==
  \/ tolerance < 0 \/ tolerance > Tenths(1)
  \/ yinyang_t < 0 \/ 2 * yinyang_t > Tenths(1)

\* C5 as stated: whatever the other arguments, the device mask included,
\* the call returns InvalidArguments when tolerance is outside [0, 1] and
\* when yinyang_t is outside [0, 0.5].
C5_BadFractionsInvalid ==
  pc # "check_args" /\ FractionsInvalid =>
    pc = "done" /\ result = "InvalidArguments"

\* C5: when tolerance is outside [0, 1] or yinyang_t outside [0, 0.5] the
\* call stops in check_args; it returns NoSuchDevice when the sizes are
\* valid and the mask exceeds 2^installed, and InvalidArguments otherwise.
C5_BadFractionsRejected ==
  pc # "check_args" /\ FractionsInvalid =>
    /\ pc = "done"
    /\ result = IF SizesValid /\ device > Pow2(installed)
                THEN "NoSuchDevice" ELSE "InvalidArguments"

C5_Witness ==
  /\ pc = "done" /\ result = "InvalidArguments"
  /\ SizesValid /\ device <= Pow2(installed) /\ null_ptrs = {}
  /\ tolerance > Tenths(1) /\ yinyang_t = 0 /\ ~fp16x2

\* C6: with mask 0 setup_devices returns the installed devices that can be
\* selected, in ascending order; a call with valid other arguments whose
\* mask holds no device that can be selected (none installed, or every
\* masked device not installed or failing selection) returns NoSuchDevice
\* and has allocated nothing and copied nothing.
C6_MaskZeroAndEmptySelection ==
  /\ SetupRan /\ device = 0 =>
       Range(devs) = selectable /\ Ascending(devs)
  /\ SizesValid /\ SelectableInMask = {} /\ pc \notin {"check_args", "setup_devices"} =>
       /\ pc = "done" /\ result = "NoSuchDevice"
       /\ bufs = NoBufs /\ samples_copied = {} /\ centroid_src = <<>>
       /\ collect = NoCollect

C6_Witness ==
  /\ SetupRan /\ pc = "done" /\ result = "NoSuchDevice"
  /\ installed = MaxInstalled /\ device = Pow2(installed) - 1
  /\ selectable = {} /\ device_ptrs >= 0

\* C7 as stated: with valid other arguments the call returns NoSuchDevice
\* only if no device of the mask can be selected.
C7_NoSuchDeviceOnlyIfNoneSelectable ==
  SizesValid /\ pc = "done" /\ result = "NoSuchDevice" =>
    SelectableInMask = {}

\* C7: with valid other arguments the call returns NoSuchDevice only if no
\* device of the mask can be selected or the mask exceeds 2^installed; a
\* mask within that limit holding a device that can be selected goes on
\* with exactly the masked devices that can be selected, in ascending order.
C7_UnselectableDropped ==
  /\ SizesValid /\ pc = "done" /\ result = "NoSuchDevice" =>
       SelectableInMask = {} \/ device > Pow2(installed)
  /\ SizesValid /\ device <= Pow2(installed) /\ SelectableInMask # {}
       /\ pc \notin {"check_args", "setup_devices"} =>
       /\ Range(devs) = SelectableInMask /\ Ascending(devs)
       /\ result # "NoSuchDevice"

C7_Witness ==
  /\ device = 3 /\ installed = 2 /\ selectable = {1}
  /\ devs = <<1>> /\ pc = "alloc_centroids"

\* C8 as stated: a failed copy or allocation ends the call at once with
\* MemoryCopyError or MemoryAllocationError, and a call that returned an
\* error code has had neither output written by the collector.
C8_FatalAndNothingWritten ==
  /\ failed # "" =>
       /\ pc = "done" /\ Back(phases) = failed
       /\ result \in {"MemoryCopyError", "MemoryAllocationError", "RuntimeError"}
  /\ pc = "done" /\ result \in ResultCodes \ {"Success"} =>
       ~collect.centroids /\ ~collect.assignments

\* C8: a failed copy or allocation ends the call at once with
\* MemoryCopyError or MemoryAllocationError; a call that returned an error
\* code has not had its assignments written by the collector, and has had
\* its centroids written only when it is the collector's second copy, the
\* one of the assignments, that did not succeed.
C8_FatalAndAssignmentsUnwritten ==
  /\ failed # "" =>
       /\ pc = "done" /\ Back(phases) = failed
       /\ result \in {"MemoryCopyError", "MemoryAllocationError", "RuntimeError"}
  /\ pc = "done" /\ result \in ResultCodes \ {"Success"} =>
       /\ ~collect.assignments
       /\ collect.centroids =>
            Back(phases) = "collect" /\ result = "MemoryCopyError"

C8_Witness ==
  /\ pc = "done" /\ result = "MemoryAllocationError"
  /\ failed = "alloc_centroids" /\ Len(devs) = 2
  /\ Len(bufs.device_centroids) = 1 /\ ~collect.centroids

\* the call is well-formed and nothing outside it has failed: valid sizes,
\* fewer clusters than samples, no NaN sample, a non-empty selection
WellFormed ==
  /\ SizesValid /\ clusters_size < samples_size
  /\ nan_samples = {}
  /\ devs # <<>>
  /\ failed = ""

\* C9: a well-formed call in which every operation of the runtime and every
\* kernel succeeds ends with Success, in each init mode, for each
\* non-empty selection, in host mode and with a designated device.
C9_WellFormedSucceeds ==
  pc = "done" /\ WellFormed => result = "Success"

\* C10: in random mode the samples copied into the slots are clusters_size
\* pairwise distinct indices in [0, samples_size), slot c gets the same
\* sample on every device, and a second initialization with the seed of the
\* first chooses the same samples in the same order.
C10_RandomInit ==
  init = "Random" /\ pc = "kmeans_cuda_yy" =>
    /\ \A i \in 1..Len(devs) :
         /\ Len(centroid_src[i]) = clusters_size
         /\ \A c \in 1..clusters_size : centroid_src[i][c] \in 0..(samples_size - 1)
         /\ \A c, e \in 1..clusters_size :
              c # e => centroid_src[i][c] # centroid_src[i][e]
         /\ centroid_src[i] = centroid_src[1]
    /\ rnd.phase = "second" /\ rnd.seed = seed =>
         centroid_src = rnd.centroid_src

C10_Witness ==
  /\ init = "Random" /\ pc = "kmeans_cuda_yy"
  /\ rnd.phase = "second" /\ rnd.seed = seed
  /\ Len(devs) = 2 /\ clusters_size = 2
  /\ centroid_src = rnd.centroid_src
  /\ centroid_src[1] # <<0, 1>>
C12_DesignatedAddedOnce ==
  SetupRan =>
    /\ \A m, n \in 1..Len(work_devs) : m # n => work_devs[m] # work_devs[n]
    /\ Range(devs) = SelectableInMask /\ Ascending(devs)
    /\ device_ptrs \in Range(devs) => MaskBit(EffectiveMask, device_ptrs)

\* C13: whatever the peer-capability queries and the peer-enable attempts
\* return, setup_devices returns the masked devices that can be selected and
\* the call goes on (its result code untouched) when that list is not
\* empty; the capability of every pair of the working list is queried and
\* enablement is attempted for every ordered pair of distinct devices of it.
C13_P2PNeverFatal ==
  SetupRan =>
    /\ Range(devs) = SelectableInMask /\ Ascending(devs)
    /\ devs # <<>> => result # "NoSuchDevice"
    /\ devs # <<>> /\ Back(phases) = "setup_devices" =>
         pc = "alloc_samples" /\ result = "Running"
    /\ \A a, b \in Range(work_devs) :
         /\ a # b => <<a, b>> \in p2p.enabled
         /\ a # b => <<a, b>> \in p2p.queried \/ <<b, a>> \in p2p.queried
    /\ ~p2p.fatal

C13_Witness ==
  /\ SetupRan /\ p2p.warned /\ Len(devs) = 2
  /\ <<devs[2], devs[1]>> \in p2p.enabled
  /\ pc = "alloc_samples" /\ result = "Running"

\* C14: when the call has returned InvalidArguments, check_args is the only
\* step that ran: no device was selected, no P2P step ran, nothing was
\* allocated, copied or launched, and the validator changed nothing.
C14_InvalidBeforeDeviceWork ==
  pc = "done" /\ result = "InvalidArguments" =>
    /\ phases = <<"check_args">>
    /\ devs = <<>> /\ work_devs = <<>> /\ p2p = NoP2P /\ freed = {}
    /\ bufs = NoBufs /\ samples_copied = {} /\ centroid_src = <<>>
    /\ collect = NoCollect /\ failed = ""

C14_Witness ==
  /\ pc = "done" /\ result = "InvalidArguments"
  /\ SizesValid /\ installed = MaxInstalled /\ device = 1
  /\ null_ptrs = {} /\ ~FractionsInvalid /\ fp16x2
  /\ phases = <<"check_args">>

Count(s, x) == Cardinality({n \in 1..Len(s) : s[n] = x})

\* x occurs in s and every occurrence of y comes after its first occurrence
Before(s, x, y) ==
  \E m \in 1..Len(s) :
    s[m] = x /\ \A n \in 1..Len(s) : s[n] = y => m < n

AllocPhases == {"alloc_samples", "alloc_centroids", "alloc_assignments",
                "alloc_yy"}

\* every buffer of the run has its entries
AllAllocated ==
  /\ \A a \in AllocPhases : Count(phases, a) = 1
  /\ bufs = ApplyAllocs(NoBufs, PlainRequests \o YYRequests,
                        Len(PlainRequests \o YYRequests))

\* what C15 says of a run in which kmeans_cuda_setup was invoked or has
\* failed
SetupOrdered ==
  /\ Count(phases, "kmeans_cuda_setup") <= 1
  /\ Count(phases, "kmeans_cuda_setup") = 1 =>
       /\ AllAllocated
       /\ \A a \in AllocPhases : Before(phases, a, "kmeans_cuda_setup")
       /\ Before(phases, "kmeans_cuda_setup", "init_centroids")
       /\ Before(phases, "kmeans_cuda_setup", "kmeans_cuda_yy")
  /\ pc \in {"init_centroids", "pp_probe", "pp_step", "kmeans_cuda_yy", "collect"}
       => Count(phases, "kmeans_cuda_setup") = 1 /\ failed = ""
  /\ failed = "kmeans_cuda_setup" =>
       /\ pc = "done" /\ result = "RuntimeError"
       /\ Count(phases, "init_centroids") = 0
       /\ Count(phases, "kmeans_cuda_yy") = 0

\* C15 as stated: every run invokes kmeans_cuda_setup exactly once, after
\* all buffers are allocated and before any k-means++ step and before the
\* refinement; after a failed setup neither the initializer nor the
\* refinement is invoked and the error is returned.
C15_SetupOnceInEveryRun ==
  /\ SetupOrdered
  /\ pc = "done" => Count(phases, "kmeans_cuda_setup") = 1

\* the run got as far as line 350
ReachedSetup ==
  /\ \A a \in AllocPhases : Count(phases, a) = 1
  /\ failed \notin AllocPhases \cup {"print_memory_stats"}
  /\ pc # "kmeans_cuda_setup"

\* C15: a run that gets as far as the setup step (validation, device
\* selection, the allocations, the copy of the samples and, when
\* verbosity > 1, the memory statistics all succeeded) invokes
\* kmeans_cuda_setup exactly once, after all buffers are allocated and
\* before any k-means++ step and before the refinement; a run that returns
\* earlier never invokes it; after a failed setup neither the initializer
\* nor the refinement is invoked and the error is returned.
C15_SetupOnceWhenReached ==
  /\ SetupOrdered
  /\ Count(phases, "kmeans_cuda_setup") = (IF ReachedSetup THEN 1 ELSE 0)

C15_Witness ==
  /\ pc = "done" /\ failed = "kmeans_cuda_setup" /\ result = "RuntimeError"
  /\ Count(phases, "kmeans_cuda_setup") = 1
  /\ Count(phases, "print_memory_stats") = 1
  /\ yy_groups_size >= 1 /\ Len(devs) = 2

\* the number of times the region at position i of base was freed
TimesFreed(base, i) ==
  Cardinality({ev \in freed : ev.base = base /\ ev.at = i})

\* C16: when kmeans_cuda has returned, with Success or an error code, every
\* region the run allocated has been freed exactly once and nothing else
\* has been freed: no pointer of the caller, and the region of
\* device_passed_yy that device_centroids_yy aliases only once.
C16_FreedExactlyOnce ==
  pc = "done" /\ result \in ResultCodes =>
    /\ \A buf \in BufferNames : \A i \in 1..Len(bufs[buf]) :
         IF bufs[buf][i].ptr = "fresh"
         THEN /\ bufs[buf][i].owned
              /\ TimesFreed(buf, i) = 1
         ELSE /\ ~bufs[buf][i].owned
              /\ \A ev \in freed : ~(ev.via = buf /\ ev.at = i)
    /\ \A ev \in freed :
         /\ ev.base \in BufferNames
         /\ ev.at <= Len(bufs[ev.base])
         /\ bufs[ev.base][ev.at].ptr = "fresh"

C16_Witness ==
  /\ pc = "done" /\ result = "RuntimeError"
  /\ Len(devs) = 2 /\ device_ptrs = devs[1]
  /\ Len(bufs.device_centroids_yy) = 2
  /\ bufs.device_centroids_yy[2].ptr = "device_passed_yy"
  /\ TimesFreed("device_passed_yy", 2) = 1
  /\ TimesFreed("device_samples", 2) = 1
  /\ TimesFreed("device_samples", 1) = 0

YYBuffers == {"device_assignments_yy", "device_bounds_yy", "device_drifts_yy",
              "device_passed_yy", "device_centroids_yy"}

\* C17: when the initializer and the refinement are invoked, every buffer
\* passed to them has one entry per selected device (the yinyang buffers
\* when grouping is enabled), entry i being device devs[i]'s; and the entry
\* the collector reads is named by a position of devs, the last one, not by
\* a device id.
C17_OneEntryPerDevice ==
  /\ pc \in {"init_centroids", "pp_probe", "pp_step", "kmeans_cuda_yy", "collect"} =>
       \A buf \in BufferNames :
         IF buf \in YYBuffers /\ yy_groups_size < 1
         THEN bufs[buf] = <<>>
         ELSE /\ Len(bufs[buf]) = Len(devs)
              /\ \A i \in 1..Len(devs) : bufs[buf][i].dev = devs[i]
  /\ collect.idx # -1 =>
       /\ collect.idx \in 0..(Len(devs) - 1)
       /\ bufs.device_centroids[collect.idx + 1].dev = Back(devs)
       /\ bufs.device_assignments[collect.idx + 1].dev = Back(devs)

\* C18: with grouping enabled, every entry of device_passed_yy has capacity
\* max(max_length, clusters_size + yy_groups_size), the sum taken without
\* wrap-around, and every entry of device_centroids_yy, allocated or
\* aliasing device_passed_yy, has capacity for yy_groups_size *
\* features_size elements.
C18_YinyangCapacities ==
  pc = "kmeans_cuda_setup" /\ yy_groups_size >= 1 =>
    \A i \in 1..Len(devs) :
      /\ bufs.device_passed_yy[i].size =
           Max(yy_max_length, clusters_size + yy_groups_size)
      /\ bufs.device_centroids_yy[i].size >= yy_groups_size * features_size

\* C19: for every draw of rand(), 0 and RAND_MAX included, the search ends
\* with 1 <= j <= samples_size, and every index it reads of host_dists is
\* inside [0, samples_size), so the sample copied, j - 1, is in range.
C19_SearchInRange ==
  search.phase = "found" =>
    /\ 1 <= search.j /\ search.j <= SearchN
    /\ ~search.oob

\* C20: when the initialization has succeeded, in any mode, the centroid
\* sets of all devices are identical; in the random and the k-means++ mode
\* slot c holds the same sample on every device, a sample of the input.
C20_CentroidsIdentical ==
  pc = "kmeans_cuda_yy" =>
    \A i \in 1..Len(devs) :
      /\ centroid_src[i] = centroid_src[1]
      /\ init \in {"Random", "PlusPlus"} =>
           \A c \in 1..clusters_size :
             centroid_src[i][c] \in 0..(samples_size - 1)
====
